---- MODULE Spec2Model ----
(***************************************************************************)
(* State-machine model of nanderstabel/expert-system:                      *)
(*   - ParallelPermutationIter (src/logic/permutation_iter/parallel.rs):   *)
(*     chunking of [0, 2^n), one worker per chunk, bounded MPSC channel,   *)
(*     the consumer's blocking next();                                     *)
(*   - Input::try_from and main (src/main.rs);                             *)
(*   - Parser::parse (src/structs/parser.rs).                              *)
(***************************************************************************)
EXTENDS Integers, Sequences, FiniteSets, TLC

\* ------------------------------------------------------------------ bounds
\* Largest variables.len() explored (2^MaxVars assignments).
MaxVars == 2
\* Largest thread_count explored (0 is included: the rejected value).
MaxThreads == 2

\* Largest number of lines of an input file explored.
MaxLines == 4

\* Largest number of tokens of a formula explored.
MaxTokens == 5

\* Largest number of characters of a facts or queries line explored.
MaxStrLen == 3

\* --------------------------------------------------------------- constants
\* parallel.rs:6  const PARALLEL_THREAD_BUFF_SIZE: usize = 4000;
PARALLEL_THREAD_BUFF_SIZE == 4000
\* Per-thread buffer sizes explored: the program's constant and two small
\* values under which the bounded channel does fill up.
BuffSizes == {1, 2, PARALLEL_THREAD_BUFF_SIZE}

VARIABLES
    \* ---- ParallelPermutationIter
    iter_state,     \* "init" | "running" | "panicked": outcome of new()
    variables_len,  \* variables.len() given to new()
    thread_count,   \* ParallelPermutationIter.thread_count
    buff_size,      \* the per-thread buffer size of the build
    chunked_iters,  \* one SequentialPermutationIter per worker (moved into it)
    worker,         \* per worker thread: "running" | "done" (sender dropped)
    has_channel,    \* bounded(..) has been called
    channel,        \* rows sent and not yet received, FIFO
    received,       \* rows next() has returned so far, in order
    ended,          \* next() has returned None
    receiver_alive  \* the consumer holds the ParallelPermutationIter (its receiver)

iterVars == <<iter_state, variables_len, thread_count, buff_size, chunked_iters,
              worker, has_channel, channel, received, ended, receiver_alive>>

VARIABLES
    \* ---- main and Input (main.rs)
    args_len,       \* env::args().len()
    file_readable,  \* read_file(&file_path) succeeds
    lines,          \* the lines of the input file, each a sequence of characters
    main_pc,        \* "start" | "rules" | "done" | "usage" | "failed"
    input,          \* the Result of Input::try_from(Vec) (NoResult before the call)
    rule_idx,       \* rules the loop of main has gone through
    tables,         \* the rules whose truth table main has printed, in order
    main_err        \* the error main returned with (NoError if none)

mainVars == <<args_len, file_readable, lines, main_pc, input, rule_idx, tables, main_err>>

VARIABLES
    \* ---- Parser (structs/parser.rs)
    formula,        \* the tokens of the formula the caller wants parsed
    dummy_file,     \* a file named "dummy" can be opened in the working directory
    parser,         \* the Parser value (NoParser before Parser::new)
    parse_result    \* what Parser::parse ended with (NoResult before the call)

parserVars == <<formula, dummy_file, parser, parse_result>>

vars == <<iterVars, mainVars, parserVars>>

\* ------------------------------------------------------------ pure helpers
RECURSIVE Pow2(_)
\* 1 << k
Pow2(k) == IF k = 0 THEN 1 ELSE 2 * Pow2(k - 1)

\* The row a SequentialPermutationIter yields for one assignment.
Row(a) == [assignment |-> a]

\* SequentialPermutationIter::new(formula, variables, pos_map, start, end)
SequentialPermutationIter_new(start, end) ==
    [start |-> start, end |-> end, cursor |-> start]

\* SequentialPermutationIter::next has a row to yield
SequentialPermutationIter_has_next(it) == it.cursor < it.end

\* Mutant: every chunk after the first starts one past where the previous one ends.
ChunkStart_Gap(i, total_end, tc) ==
    IF i = 0 THEN 0 ELSE (total_end \div tc) * i + 1

\* start = step * i  (the `_` arm's loop body; step = total_end / thread_count)
ChunkStart(i, total_end, tc) == (total_end \div tc) * i

\* Mutant: the last chunk does not absorb the remainder.
ChunkEnd_NoRemainder(i, total_end, tc) ==
    ChunkStart(i, total_end, tc) + (total_end \div tc)

\* Mutant: the step is rounded up, and ends are cut at total_end.
ChunkEnd_Ceil(i, total_end, tc) ==
    IF i = tc - 1 \/ ChunkStart(i, total_end, tc) + ((total_end + tc - 1) \div tc) > total_end
    THEN total_end
    ELSE ChunkStart(i, total_end, tc) + ((total_end + tc - 1) \div tc)

\* end = start + step, and total_end for the last worker
ChunkEnd(i, total_end, tc) ==
    IF i = tc - 1 THEN total_end ELSE ChunkStart(i, total_end, tc) + (total_end \div tc)

\* chunked_iters as built by the match on thread_count (arms 1 and _).
ChunkedIters(total_end, tc) ==
    IF tc = 1
    THEN <<SequentialPermutationIter_new(0, total_end)>>
    ELSE [k \in 1..tc |->
            SequentialPermutationIter_new(ChunkStart(k - 1, total_end, tc),
                                          ChunkEnd(k - 1, total_end, tc))]

\* bounded(PARALLEL_THREAD_BUFF_SIZE * thread_count)
Capacity == buff_size * thread_count


\* ------------------------------------------------ Input::try_from (main.rs)
\* The lines an input file is made of: those of the tests of main.rs, a facts
\* line holding a non-identifier, a line with white space and a malformed rule.
LineSet ==
    { <<>>,
      <<"=">>, <<"=", "A">>, <<"=", "A", "A">>, <<"=", "?">>,
      <<"?">>, <<"?", "Z">>, <<" ", "?", "Z">>,
      <<"A", "=", ">", "Z">>, <<"Z", "=", ">", "A">>, <<"A", "Z">> }

\* Every input of at most MaxLines lines.
Inputs == UNION { [1..k -> LineSet] : k \in 0..MaxLines }

UpperCase ==
    { "A", "B", "C", "D", "E", "F", "G", "H", "I", "J", "K", "L", "M",
      "N", "O", "P", "Q", "R", "S", "T", "U", "V", "W", "X", "Y", "Z" }

\* is_identifier: an upper-case letter
is_identifier(c) == c \in UpperCase

NotWhitespace(c) == c # " "

RECURSIVE UntilComment(_)
\* The part of a line before its first '#'.
UntilComment(l) ==
    IF l = <<>> \/ Head(l) = "#" THEN <<>> ELSE <<Head(l)>> \o UntilComment(Tail(l))

\* sanitize::sanitize_lines: comments and white space removed from every line.
sanitize_lines(ls) ==
    [i \in DOMAIN ls |-> SelectSeq(UntilComment(ls[i]), NotWhitespace)]

\* Option<String>
None == <<>>
Some(x) == <<x>>

\* The values of Result<Input, anyhow::Error>; ch is the character an
\* "Invalid identifier" message names.
NoResult == [kind |-> "none"]
Ok(rules, facts, queries) ==
    [kind |-> "ok", rules |-> rules, facts |-> facts, queries |-> queries]
Err(msg, ch) == [kind |-> "err", msg |-> msg, ch |-> ch]

\* The loop's locals before the first line (main.rs:47-49).
LoopStart == [err |-> None, rules |-> <<>>, facts |-> None, queries |-> None]

\* Mutant: a second facts or queries line replaces the first one.
LoopStep_Overwrite(acc, l) ==
    IF acc.err # None THEN acc
    ELSE IF l # <<>> /\ Head(l) = "=" THEN [acc EXCEPT !.facts = Some(Tail(l))]
    ELSE IF l # <<>> /\ Head(l) = "?" THEN [acc EXCEPT !.queries = Some(Tail(l))]
    ELSE IF l # <<>> THEN [acc EXCEPT !.rules = Append(@, l)]
    ELSE acc

\* Mutant: the facts and queries lines are pushed to rules as well.
LoopStep_AllToRules(acc, l) ==
    IF acc.err # None THEN acc
    ELSE IF l # <<>> /\ Head(l) = "="
    THEN IF acc.facts = None
         THEN [acc EXCEPT !.facts = Some(Tail(l)), !.rules = Append(@, l)]
         ELSE [acc EXCEPT !.err = Some("Multiple facts found in input file")]
    ELSE IF l # <<>> /\ Head(l) = "?"
    THEN IF acc.queries = None
         THEN [acc EXCEPT !.queries = Some(Tail(l)), !.rules = Append(@, l)]
         ELSE [acc EXCEPT !.err = Some("Multiple queries found in input file")]
    ELSE IF l # <<>> THEN [acc EXCEPT !.rules = Append(@, l)]
    ELSE acc

\* One iteration of `for line in lines.iter_mut()` (main.rs:50-66); once an
\* Err has been returned by `?` nothing more is done.
LoopStep(acc, l) ==
    IF acc.err # None THEN acc
    ELSE IF l # <<>> /\ Head(l) = "="
    THEN IF acc.facts = None
         THEN [acc EXCEPT !.facts = Some(Tail(l))]
         ELSE [acc EXCEPT !.err = Some("Multiple facts found in input file")]
    ELSE IF l # <<>> /\ Head(l) = "?"
    THEN IF acc.queries = None
         THEN [acc EXCEPT !.queries = Some(Tail(l))]
         ELSE [acc EXCEPT !.err = Some("Multiple queries found in input file")]
    ELSE IF l # <<>> THEN [acc EXCEPT !.rules = Append(@, l)]
    ELSE acc

RECURSIVE Loop(_, _)
\* The whole loop over the sanitized lines.
Loop(acc, ls) == IF ls = <<>> THEN acc ELSE Loop(LoopStep(acc, Head(ls)), Tail(ls))

RECURSIVE Dedup_Adjacent(_, _)
\* Mutant: only a character repeating the one just before it is removed
\* (Vec::dedup); seen holds that one character.
Dedup_Adjacent(str, seen) ==
    IF str = <<>> THEN <<>>
    ELSE IF Head(str) \in seen THEN Dedup_Adjacent(Tail(str), seen)
    ELSE <<Head(str)>> \o Dedup_Adjacent(Tail(str), {Head(str)})

RECURSIVE Dedup(_, _)
\* chars().filter(|c| set.insert(c)).collect(): every character's first occurrence
Dedup(str, seen) ==
    IF str = <<>> THEN <<>>
    ELSE IF Head(str) \in seen THEN Dedup(Tail(str), seen)
    ELSE <<Head(str)>> \o Dedup(Tail(str), seen \cup {Head(str)})

\* chars().find(|c| !is_identifier(c)): the first non-identifier, as an Option
FindInvalid(str) ==
    LET bad == {i \in DOMAIN str : ~is_identifier(str[i])}
    IN  IF bad = {} THEN None
        ELSE Some(str[CHOOSE i \in bad : \A j \in bad : i <= j])

\* Mutant: the queries are looked at before the facts.
Finish_QueriesFirst(acc) ==
    IF acc.err # None THEN Err(acc.err[1], "")
    ELSE IF acc.queries = None THEN Err("No queries in input file", "")
    ELSE IF FindInvalid(acc.queries[1]) # None
    THEN Err("Invalid identifier in query", FindInvalid(acc.queries[1])[1])
    ELSE IF acc.facts = None THEN Err("No facts in input file", "")
    ELSE IF FindInvalid(acc.facts[1]) # None
    THEN Err("Invalid identifier in facts", FindInvalid(acc.facts[1])[1])
    ELSE Ok(acc.rules, Dedup(acc.facts[1], {}), Dedup(acc.queries[1], {}))

\* What follows the loop (main.rs:68-89).
Finish(acc) ==
    IF acc.err # None THEN Err(acc.err[1], "")
    ELSE IF acc.facts = None THEN Err("No facts in input file", "")
    ELSE IF FindInvalid(acc.facts[1]) # None
    THEN Err("Invalid identifier in facts", FindInvalid(acc.facts[1])[1])
    ELSE IF acc.queries = None THEN Err("No queries in input file", "")
    ELSE IF FindInvalid(acc.queries[1]) # None
    THEN Err("Invalid identifier in query", FindInvalid(acc.queries[1])[1])
    ELSE Ok(acc.rules, Dedup(acc.facts[1], {}), Dedup(acc.queries[1], {}))

\* impl TryFrom<Vec<T>> for Input
Input_try_from(ls) == Finish(Loop(LoopStart, sanitize_lines(ls)))

\* ------------------------------------------------------------- main (main.rs)
\* Whether a rule is a formula of the grammar (IFF, IMPLIES, OR, XOR, AND, NOT,
\* parenthesised expression or identifier, loosest first).  Each level
\* takes the characters s and a position i and gives the position after the
\* expression it read there, or 0 when there is none.
RECURSIVE ReadIff(_, _), ReadImplies(_, _), ReadOr(_, _), ReadXor(_, _),
          ReadAnd(_, _), ReadNot(_, _), ReadPrimary(_, _)

At(s, i, c) == i >= 1 /\ i <= Len(s) /\ s[i] = c

ReadPrimary(s, i) ==
    IF i < 1 \/ i > Len(s) THEN 0
    ELSE IF is_identifier(s[i]) THEN i + 1
    ELSE IF s[i] = "("
    THEN LET j == ReadIff(s, i + 1) IN IF At(s, j, ")") THEN j + 1 ELSE 0
    ELSE 0

ReadNot(s, i) == IF At(s, i, "!") THEN ReadNot(s, i + 1) ELSE ReadPrimary(s, i)

ReadAnd(s, i) ==
    LET j == ReadNot(s, i) IN IF At(s, j, "+") THEN ReadAnd(s, j + 1) ELSE j

ReadXor(s, i) ==
    LET j == ReadAnd(s, i) IN IF At(s, j, "^") THEN ReadXor(s, j + 1) ELSE j

ReadOr(s, i) ==
    LET j == ReadXor(s, i) IN IF At(s, j, "|") THEN ReadOr(s, j + 1) ELSE j

ReadImplies(s, i) ==
    LET j == ReadOr(s, i)
    IN  IF At(s, j, "=") /\ At(s, j + 1, ">") THEN ReadImplies(s, j + 2) ELSE j

ReadIff(s, i) ==
    LET j == ReadImplies(s, i)
    IN  IF At(s, j, "<") /\ At(s, j + 1, "=") /\ At(s, j + 2, ">")
        THEN ReadIff(s, j + 3) ELSE j

\* TruthTable::try_from(PermutationIter::new(&rule)) is Ok: the rule is a formula.
TruthTable_try_from_ok(rule) == ReadIff(rule, 1) = Len(rule) + 1

\* The error main returns with.
NoError == [msg |-> "", arg |-> ""]
MainError(msg, arg) == [msg |-> msg, arg |-> arg]

\* main.rs:105-108: handle_cli, Input::try_from(PathBuf) with `?`, println.
main_load ==
    /\ main_pc = "start"
    /\ IF args_len # 2
       THEN /\ main_pc' = "usage"
            /\ UNCHANGED <<input, main_err>>
       ELSE IF ~file_readable
       THEN /\ input' = Err("Failed to read input file", "")
            /\ main_err' = MainError("Failed to read input file", "")
            /\ main_pc' = "failed"
       ELSE /\ input' = Input_try_from(lines)
            /\ IF input'.kind = "err"
               THEN /\ main_err' = MainError(input'.msg, input'.ch)
                    /\ main_pc' = "failed"
               ELSE /\ main_err' = NoError
                    /\ main_pc' = "rules"
    /\ UNCHANGED <<args_len, file_readable, lines, rule_idx, tables, iterVars, parserVars>>

\* Mutant: a rule that fails to parse is skipped and the loop goes on.
main_rule_Continue ==
    /\ main_pc = "rules"
    /\ rule_idx < Len(input.rules)
    /\ rule_idx' = rule_idx + 1
    /\ IF TruthTable_try_from_ok(input.rules[rule_idx + 1])
       THEN /\ tables' = Append(tables, input.rules[rule_idx + 1])
            /\ UNCHANGED main_err
       ELSE /\ main_err' = MainError("Failed to parse rule", input.rules[rule_idx + 1])
            /\ UNCHANGED tables
    /\ UNCHANGED <<args_len, file_readable, lines, input, main_pc, iterVars, parserVars>>

\* main.rs:109-113: one iteration of `for rule in input.rules`; a failure is
\* returned by `?` with its context and ends main.
main_rule ==
    /\ main_pc = "rules"
    /\ rule_idx < Len(input.rules)
    /\ rule_idx' = rule_idx + 1
    /\ IF TruthTable_try_from_ok(input.rules[rule_idx + 1])
       THEN /\ tables' = Append(tables, input.rules[rule_idx + 1])
            /\ UNCHANGED <<main_err, main_pc>>
       ELSE /\ main_err' = MainError("Failed to parse rule", input.rules[rule_idx + 1])
            /\ main_pc' = "failed"
            /\ UNCHANGED tables
    /\ UNCHANGED <<args_len, file_readable, lines, input, iterVars, parserVars>>

\* main.rs:115: the loop is over, Ok(()).
main_return ==
    /\ main_pc = "rules"
    /\ rule_idx = Len(input.rules)
    /\ main_pc' = "done"
    /\ UNCHANGED <<args_len, file_readable, lines, input, rule_idx, tables, main_err, iterVars, parserVars>>

\* --------------------------------------------------- Parser (structs/parser.rs)
\* enum Token
Implicator == [kind |-> "Implicator"]
Operator(c) == [kind |-> "Operator", c |-> c]
Parenthesis(c) == [kind |-> "Parenthesis", c |-> c]
Identifier(str) == [kind |-> "Identifier", str |-> str]

\* The tokens formulas are made of here.
TokenSet ==
    { Identifier("A"), Identifier("B"), Identifier("C"),
      Operator("+"), Operator("|"), Implicator }

\* Every token sequence of at most MaxTokens tokens.
Formulas == UNION { [1..k -> TokenSet] : k \in 0..MaxTokens }

\* struct Node { token, left, right }, the children being Option<Node>
Node(token, left, right) == [token |-> token, left |-> left, right |-> right]

NoParser == [kind |-> "none"]

\* Parser::new
Parser_new ==
    /\ parser = NoParser
    /\ parser' = [kind |-> "Parser", tokens |-> <<>>]
    /\ UNCHANGED <<formula, dummy_file, parse_result, iterVars, mainVars>>

\* Parser::get_implicator: File::open(&"dummy") with its context, then todo!().
get_implicator ==
    IF dummy_file
    THEN [kind |-> "panic", msg |-> "not yet implemented"]
    ELSE [kind |-> "err", context |-> <<"Could find implicator: Line 4">>]

\* Parser::parse: an empty local token list, get_implicator on it with the
\* context "Could not parse", then todo!().
parse ==
    /\ parser # NoParser
    /\ parse_result = NoResult
    /\ parse_result' =
         IF get_implicator.kind = "err"
         THEN [kind |-> "err",
               context |-> <<"Could not parse: Line 4">> \o get_implicator.context]
         ELSE get_implicator
    /\ UNCHANGED <<formula, dummy_file, parser, iterVars, mainVars>>

\* --------------------------------------------------------------------- Init
IterInit ==
    /\ iter_state = "init"
    /\ variables_len = 0
    /\ thread_count = 0
    /\ buff_size \in BuffSizes
    /\ chunked_iters = <<>>
    /\ worker = <<>>
    /\ has_channel = FALSE
    /\ channel = <<>>
    /\ received = <<>>
    /\ ended = FALSE
    /\ receiver_alive = FALSE

\* No ParallelPermutationIter is under construction.
IterIdle ==
    /\ iter_state = "idle"
    /\ variables_len = 0
    /\ thread_count = 0
    /\ buff_size = PARALLEL_THREAD_BUFF_SIZE
    /\ chunked_iters = <<>>
    /\ worker = <<>>
    /\ has_channel = FALSE
    /\ channel = <<>>
    /\ received = <<>>
    /\ ended = FALSE
    /\ receiver_alive = FALSE

\* main at its first line: the command line has one argument or not, the file
\* it names is readable or not, and holds any of the inputs.
MainStart ==
    /\ \/ args_len \in {1, 3} /\ file_readable = FALSE /\ lines = <<>>
       \/ args_len = 2 /\ file_readable = FALSE /\ lines = <<>>
       \/ args_len = 2 /\ file_readable = TRUE /\ lines \in Inputs
    /\ main_pc = "start"
    /\ input = NoResult
    /\ rule_idx = 0
    /\ tables = <<>>
    /\ main_err = NoError

\* main is not running.
MainIdle ==
    /\ args_len = 0
    /\ file_readable = FALSE
    /\ lines = <<>>
    /\ main_pc = "idle"
    /\ input = NoResult
    /\ rule_idx = 0
    /\ tables = <<>>
    /\ main_err = NoError

\* The caller holds the tokens of a formula and no Parser yet.
ParserStart ==
    /\ formula \in Formulas
    /\ dummy_file \in BOOLEAN
    /\ parser = NoParser
    /\ parse_result = NoResult

\* No parse is asked for.
ParserIdle ==
    /\ formula = <<>>
    /\ dummy_file = FALSE
    /\ parser = NoParser
    /\ parse_result = NoResult

\* The identifiers facts and queries are made of here.
IdChars == {"A", "B", "Z"}

\* Every string of at most MaxStrLen identifiers.
Strs == UNION { [1..k -> IdChars] : k \in 0..MaxStrLen }

\* main at its first line, on a readable file of one rule, a facts line and a
\* queries line holding any strings of identifiers.
FactsStart ==
    /\ args_len = 2
    /\ file_readable = TRUE
    /\ \E r \in {<<"A", "=", ">", "Z">>, <<"A", "Z">>}, f \in Strs, q \in Strs :
          lines = <<r, <<"=">> \o f, <<"?">> \o q>>
    /\ main_pc = "start"
    /\ input = NoResult
    /\ rule_idx = 0
    /\ tables = <<>>
    /\ main_err = NoError

Init == IterInit /\ MainIdle /\ ParserIdle

FactsInit == FactsStart /\ IterIdle /\ ParserIdle

MainInit == MainStart /\ IterIdle /\ ParserIdle

ParserInit == ParserStart /\ IterIdle /\ MainIdle

\* ------------------------------------------------------------------ actions
\* Mutant: thread_count = 0 is not rejected but served by the single-worker arm.
New_ZeroAsOne(n, tc) ==
    /\ iter_state = "init"
    /\ variables_len' = n
    /\ thread_count' = tc
    /\ iter_state' = "running"
    /\ chunked_iters' = ChunkedIters(Pow2(n), IF tc = 0 THEN 1 ELSE tc)
    /\ worker' = [k \in 1..(IF tc = 0 THEN 1 ELSE tc) |-> "running"]
    /\ has_channel' = TRUE
    /\ receiver_alive' = TRUE
    /\ UNCHANGED <<buff_size, channel, received, ended, mainVars, parserVars>>

\* ParallelPermutationIter::new: panics on thread_count = 0 before anything is
\* built; otherwise builds the chunks, creates the channel, spawns one worker
\* per chunk and drops its own sender on return.
New(n, tc) ==
    /\ iter_state = "init"
    /\ variables_len' = n
    /\ thread_count' = tc
    /\ IF tc = 0
       THEN /\ iter_state' = "panicked"
            /\ UNCHANGED <<chunked_iters, worker, has_channel, receiver_alive>>
       ELSE /\ iter_state' = "running"
            /\ chunked_iters' = ChunkedIters(Pow2(n), tc)
            /\ worker' = [k \in 1..tc |-> "running"]
            /\ has_channel' = TRUE
            /\ receiver_alive' = TRUE
    /\ UNCHANGED <<buff_size, channel, received, ended, mainVars, parserVars>>

\* Mutant: the channel is not bounded, a send never waits.
Send_Unbounded(k) ==
    /\ iter_state = "running"
    /\ k \in DOMAIN worker
    /\ worker[k] = "running"
    /\ SequentialPermutationIter_has_next(chunked_iters[k])
    /\ receiver_alive
    /\ channel' = Append(channel, Row(chunked_iters[k].cursor))
    /\ chunked_iters' = [chunked_iters EXCEPT ![k].cursor = @ + 1]
    /\ UNCHANGED <<iter_state, variables_len, thread_count, buff_size, worker,
                   has_channel, received, ended, receiver_alive, mainVars, parserVars>>

\* Mutant: the channel hands out the newest row first (a stack, not a queue).
Send_Front(k) ==
    /\ iter_state = "running"
    /\ k \in DOMAIN worker
    /\ worker[k] = "running"
    /\ SequentialPermutationIter_has_next(chunked_iters[k])
    /\ receiver_alive
    /\ Len(channel) < Capacity
    /\ channel' = <<Row(chunked_iters[k].cursor)>> \o channel
    /\ chunked_iters' = [chunked_iters EXCEPT ![k].cursor = @ + 1]
    /\ UNCHANGED <<iter_state, variables_len, thread_count, buff_size, worker,
                   has_channel, received, ended, receiver_alive, mainVars, parserVars>>

\* One iteration of a worker's loop: the iterator yields a row and
\* thread_sender.send(row) completes (it blocks while the channel is full and
\* the receiver is alive).
Send(k) ==
    /\ iter_state = "running"
    /\ k \in DOMAIN worker
    /\ worker[k] = "running"
    /\ SequentialPermutationIter_has_next(chunked_iters[k])
    /\ receiver_alive
    /\ Len(channel) < Capacity
    /\ channel' = Append(channel, Row(chunked_iters[k].cursor))
    /\ chunked_iters' = [chunked_iters EXCEPT ![k].cursor = @ + 1]
    /\ UNCHANGED <<iter_state, variables_len, thread_count, buff_size, worker,
                   has_channel, received, ended, receiver_alive, mainVars, parserVars>>

\* The worker's iterator is exhausted: the closure returns and drops thread_sender.
WorkerExit(k) ==
    /\ iter_state = "running"
    /\ k \in DOMAIN worker
    /\ worker[k] = "running"
    /\ ~SequentialPermutationIter_has_next(chunked_iters[k])
    /\ worker' = [worker EXCEPT ![k] = "done"]
    /\ UNCHANGED <<iter_state, variables_len, thread_count, buff_size, chunked_iters,
                   has_channel, channel, received, ended, receiver_alive, mainVars, parserVars>>

\* Mutant: a send that is blocked on the full channel is not woken up by the
\* drop of the receiver.
SendFail_NotWoken(k) ==
    /\ iter_state = "running"
    /\ k \in DOMAIN worker
    /\ worker[k] = "running"
    /\ SequentialPermutationIter_has_next(chunked_iters[k])
    /\ ~receiver_alive
    /\ Len(channel) < Capacity
    /\ worker' = [worker EXCEPT ![k] = "panicked"]
    /\ chunked_iters' = [chunked_iters EXCEPT ![k].cursor = @ + 1]
    /\ UNCHANGED <<iter_state, variables_len, thread_count, buff_size, has_channel,
                   channel, received, ended, receiver_alive, mainVars, parserVars>>

\* Mutant: a send that finds the channel full fails as well (try_send).
SendFail_OnFull(k) ==
    /\ iter_state = "running"
    /\ k \in DOMAIN worker
    /\ worker[k] = "running"
    /\ SequentialPermutationIter_has_next(chunked_iters[k])
    /\ ~receiver_alive \/ Len(channel) >= Capacity
    /\ worker' = [worker EXCEPT ![k] = "panicked"]
    /\ chunked_iters' = [chunked_iters EXCEPT ![k].cursor = @ + 1]
    /\ UNCHANGED <<iter_state, variables_len, thread_count, buff_size, has_channel,
                   channel, received, ended, receiver_alive, mainVars, parserVars>>

\* One iteration of a worker's loop after the receiver was dropped: the iterator
\* yields a row, send returns Err at once (a blocked send is woken up), unwrap
\* panics and the thread ends, dropping its sender; the row is lost.
SendFail(k) ==
    /\ iter_state = "running"
    /\ k \in DOMAIN worker
    /\ worker[k] = "running"
    /\ SequentialPermutationIter_has_next(chunked_iters[k])
    /\ ~receiver_alive
    /\ worker' = [worker EXCEPT ![k] = "panicked"]
    /\ chunked_iters' = [chunked_iters EXCEPT ![k].cursor = @ + 1]
    /\ UNCHANGED <<iter_state, variables_len, thread_count, buff_size, has_channel,
                   channel, received, ended, receiver_alive, mainVars, parserVars>>

\* The consumer drops the ParallelPermutationIter, and with it the receiver.
Drop ==
    /\ iter_state = "running"
    /\ receiver_alive
    /\ receiver_alive' = FALSE
    /\ UNCHANGED <<iter_state, variables_len, thread_count, buff_size, chunked_iters,
                   worker, has_channel, channel, received, ended, mainVars, parserVars>>

\* Every sender has been dropped: each worker thread has ended.
Disconnected == \A k \in DOMAIN worker : worker[k] # "running"

\* Mutant: the consumer waits for every worker to end before it receives.
next_AfterJoin ==
    /\ iter_state = "running"
    /\ receiver_alive
    /\ Disconnected
    /\ IF channel # <<>>
       THEN /\ received' = Append(received, Head(channel))
            /\ channel' = Tail(channel)
            /\ UNCHANGED ended
       ELSE /\ ended' = TRUE
            /\ UNCHANGED <<channel, received>>
    /\ UNCHANGED <<iter_state, variables_len, thread_count, buff_size, chunked_iters,
                   worker, has_channel, receiver_alive, mainVars, parserVars>>

\* Mutant: the receive takes the row sent last.
next_Newest ==
    /\ iter_state = "running"
    /\ receiver_alive
    /\ IF channel # <<>>
       THEN /\ received' = Append(received, channel[Len(channel)])
            /\ channel' = SubSeq(channel, 1, Len(channel) - 1)
            /\ UNCHANGED ended
       ELSE /\ Disconnected
            /\ ended' = TRUE
            /\ UNCHANGED <<channel, received>>
    /\ UNCHANGED <<iter_state, variables_len, thread_count, buff_size, chunked_iters,
                   worker, has_channel, receiver_alive, mainVars, parserVars>>

\* Mutant: a non-blocking receive (try_recv): an empty channel ends the stream
\* even while senders are alive.
next_NoWait ==
    /\ iter_state = "running"
    /\ receiver_alive
    /\ IF channel # <<>>
       THEN /\ received' = Append(received, Head(channel))
            /\ channel' = Tail(channel)
            /\ UNCHANGED ended
       ELSE /\ ended' = TRUE
            /\ UNCHANGED <<channel, received>>
    /\ UNCHANGED <<iter_state, variables_len, thread_count, buff_size, chunked_iters,
                   worker, has_channel, receiver_alive, mainVars, parserVars>>

\* Iterator::next for ParallelPermutationIter: self.receiver.recv().ok().
\* recv blocks while the channel is empty and some sender is alive.
next ==
    /\ iter_state = "running"
    /\ receiver_alive
    /\ IF channel # <<>>
       THEN /\ received' = Append(received, Head(channel))
            /\ channel' = Tail(channel)
            /\ UNCHANGED ended
       ELSE /\ Disconnected
            /\ ended' = TRUE
            /\ UNCHANGED <<channel, received>>
    /\ UNCHANGED <<iter_state, variables_len, thread_count, buff_size, chunked_iters,
                   worker, has_channel, receiver_alive, mainVars, parserVars>>

Next ==
    \/ \E n \in 0..MaxVars, tc \in 0..MaxThreads : New(n, tc)
    \/ \E k \in 1..MaxThreads : Send(k)
    \/ \E k \in 1..MaxThreads : WorkerExit(k)
    \/ next

Spec == Init /\ [][Next]_vars

\* The workers are OS threads and the consumer keeps calling next(): each of
\* them, when it can take a step, eventually does.
Fairness ==
    /\ WF_vars(next)
    /\ \A k \in 1..MaxThreads : WF_vars(Send(k)) /\ WF_vars(WorkerExit(k))

FairSpec == Spec /\ Fairness

\* The consumer may also drop the iterator at any time.
NextDrop ==
    \/ Next
    \/ Drop
    \/ \E k \in 1..MaxThreads : SendFail(k)

SpecDrop == Init /\ [][NextDrop]_vars

\* The workers are OS threads; the consumer is free to pull, to stop pulling
\* or to drop the iterator.
FairnessWorkers ==
    \A k \in 1..MaxThreads :
        WF_vars(Send(k)) /\ WF_vars(WorkerExit(k)) /\ WF_vars(SendFail(k))

FairSpecDrop == SpecDrop /\ FairnessWorkers

MainNext ==
    \/ main_load
    \/ main_rule
    \/ main_return

\* A run of the program on one command line and one input file.
SpecMain == MainInit /\ [][MainNext]_vars

\* A run of the program on a file whose facts and queries are any strings.
SpecFacts == FactsInit /\ [][MainNext]_vars

ParserNext ==
    \/ Parser_new
    \/ parse

\* A caller that builds a Parser and asks it to parse.
SpecParser == ParserInit /\ [][ParserNext]_vars

\* ------------------------------------------------------------------ claims
\* The full assignment range of the iterator.
TotalEnd == Pow2(variables_len)

\* How many times the row of assignment a occurs in a sequence of rows.
Count(rows, a) == Cardinality({i \in DOMAIN rows : rows[i] = Row(a)})

\* Every sender dropped and nothing left in the channel.
Drained ==
    /\ Disconnected
    /\ channel = <<>>
    /\ \A k \in DOMAIN chunked_iters : ~SequentialPermutationIter_has_next(chunked_iters[k])

\* C1: for every n and every thread_count >= 1, a consumer that calls next until
\* None has received exactly 2^n rows, each assignment of 0..2^n-1 exactly once;
\* before that, no row is ever received or in flight twice.
C1_AllRowsExactlyOnce ==
    (iter_state = "running") =>
        /\ \A a \in 0..(TotalEnd - 1) : Count(received \o channel, a) <= 1
        /\ \A i \in DOMAIN received : received[i].assignment \in 0..(TotalEnd - 1)
        /\ ended =>
              /\ Len(received) = TotalEnd
              /\ \A a \in 0..(TotalEnd - 1) : Count(received, a) = 1

\* C1 witness: the stream has ended after two workers delivered all four rows
\* of two variables, not in the order of the sequential iterator.
C1_Witness ==
    /\ ended
    /\ thread_count = 2
    /\ variables_len = 2
    /\ Len(received) = 4
    /\ \E i, j \in DOMAIN received :
          i < j /\ received[i].assignment > received[j].assignment

\* C2: the ranges handed to the workers are exactly thread_count contiguous
\* ranges in ascending order, the first starting at 0, each starting where the
\* previous one ends, the last ending at 2^n.
C2_ChunksPartition ==
    (iter_state = "running") =>
        /\ Len(chunked_iters) = thread_count
        /\ chunked_iters[1].start = 0
        /\ chunked_iters[thread_count].end = TotalEnd
        /\ \A k \in 1..thread_count : chunked_iters[k].start <= chunked_iters[k].end
        /\ \A k \in 1..(thread_count - 1) :
              chunked_iters[k].end = chunked_iters[k + 1].start

\* C2 witness: workers are running with more threads than assignments and a
\* thread_count that does not divide 2^n.
C2_Witness ==
    /\ iter_state = "running"
    /\ thread_count > TotalEnd
    /\ TotalEnd % thread_count # 0

\* C3: with thread_count = 0, new() fails before a channel is created or a
\* worker is spawned, and no row is ever sent.
C3_ZeroThreadsFailsFast ==
    (iter_state # "init" /\ thread_count = 0) =>
        /\ iter_state = "panicked"
        /\ ~has_channel
        /\ worker = <<>>
        /\ chunked_iters = <<>>
        /\ channel = <<>>
        /\ received = <<>>

\* C3 witness: new() was called with thread_count = 0.
C3_Witness == iter_state = "panicked" /\ thread_count = 0

\* C4: under fair scheduling a consumer that keeps calling next() never blocks
\* forever: a blocked call is eventually served, the stream eventually ends, and
\* None is returned only once every worker is finished and the channel is empty.
C4_NextTerminates ==
    /\ [](ended => Drained)
    /\ ((iter_state = "running" /\ channel = <<>> /\ ~Disconnected)
            ~> (channel # <<>> \/ Disconnected))
    /\ ((iter_state = "running") ~> (ended /\ Len(received) = TotalEnd))

\* C4 witness: None has been returned after several workers delivered their rows.
C4_Witness ==
    /\ ended
    /\ thread_count >= 2
    /\ Len(received) >= 2

\* The worker whose range holds assignment a.
SameChunk(a, b) ==
    \E k \in DOMAIN chunked_iters :
        /\ chunked_iters[k].start <= a /\ a < chunked_iters[k].end
        /\ chunked_iters[k].start <= b /\ b < chunked_iters[k].end

\* C5: any two received rows of the same chunk appear in ascending assignment
\* order, whatever the interleaving of the workers.
C5_ChunkOrderKept ==
    \A i, j \in DOMAIN received :
        (i < j /\ SameChunk(received[i].assignment, received[j].assignment))
            => received[i].assignment < received[j].assignment

\* C5 witness: two rows of one chunk were received, and rows of different chunks
\* were received against the global order.
C5_Witness ==
    /\ \E i, j \in DOMAIN received :
          i < j /\ SameChunk(received[i].assignment, received[j].assignment)
    /\ \E i, j \in DOMAIN received :
          /\ i < j
          /\ received[i].assignment > received[j].assignment
          /\ ~SameChunk(received[i].assignment, received[j].assignment)

\* The formula `A + B | C` and the tree (A AND B) OR C.
F_AndOr ==
    <<Identifier("A"), Operator("+"), Identifier("B"), Operator("|"), Identifier("C")>>
Leaf(str) == Node(Identifier(str), None, None)
AST_AndOr ==
    Node(Operator("|"),
         Some(Node(Operator("+"), Some(Leaf("A")), Some(Leaf("B")))),
         Some(Leaf("C")))

\* The formula `A => B => C` and the tree A => (B => C).
F_Implies ==
    <<Identifier("A"), Implicator, Identifier("B"), Implicator, Identifier("C")>>
AST_Implies ==
    Node(Implicator,
         Some(Leaf("A")),
         Some(Node(Implicator, Some(Leaf("B")), Some(Leaf("C")))))

\* C6: Parser::parse on the tokens of a valid formula returns successfully with
\* an AST that honours precedence and associativity: `A + B | C` gives
\* OR(AND(A, B), C) and `A => B => C` gives IMPLIES(A, IMPLIES(B, C)).
C6_ParseHonoursPrecedence ==
    (parse_result # NoResult) =>
        /\ (formula = F_AndOr) => (parse_result = [kind |-> "ok", ast |-> AST_AndOr])
        /\ (formula = F_Implies) => (parse_result = [kind |-> "ok", ast |-> AST_Implies])

\* main has returned (or exited).
MainOver == main_pc \in {"done", "failed"}

\* Input::try_from has been applied to the lines of the file.
Loaded == input # NoResult /\ file_readable

\* The rules that are not formulas, by their place in Input.rules.
BadRules == {i \in DOMAIN input.rules : ~TruthTable_try_from_ok(input.rules[i])}

\* The least element of a non-empty set of numbers.
Min(S) == CHOOSE x \in S : \A y \in S : x <= y

\* C7 as stated: a parse failure on one rule does not abort the run; every rule
\* that comes after a failing rule is still processed and its truth table is
\* still produced.
C7_LaterRulesStillProcessed ==
    (MainOver /\ Loaded /\ input.kind = "ok") =>
        /\ rule_idx = Len(input.rules)
        /\ tables = SelectSeq(input.rules, TruthTable_try_from_ok)

\* C7 amended: a parse failure on one rule is surfaced with context naming that
\* rule and ends the run: the rules before the first failing rule have their
\* truth tables produced, in order, and no rule after it is processed.
C7_FirstFailureAborts ==
    (Loaded /\ input.kind = "ok") =>
        /\ tables = SubSeq(input.rules, 1, Len(tables))
        /\ main_pc = "rules" => (Len(tables) = rule_idx /\ main_err = NoError)
        /\ MainOver =>
             IF BadRules = {}
             THEN /\ main_pc = "done"
                  /\ main_err = NoError
                  /\ tables = input.rules
             ELSE /\ main_pc = "failed"
                  /\ main_err = MainError("Failed to parse rule", input.rules[Min(BadRules)])
                  /\ rule_idx = Min(BadRules)
                  /\ tables = SubSeq(input.rules, 1, Min(BadRules) - 1)

\* C7 witness: main has failed on a rule that a well-formed rule follows.
C7_Witness ==
    /\ Loaded /\ input.kind = "ok"
    /\ main_pc = "failed"
    /\ main_err.msg = "Failed to parse rule"
    /\ rule_idx < Len(input.rules)
    /\ TruthTable_try_from_ok(input.rules[rule_idx + 1])

\* The lines the loop of Input::try_from goes through.
Sanitized == sanitize_lines(lines)
IsFactsLine(l) == l # <<>> /\ Head(l) = "="
IsQueriesLine(l) == l # <<>> /\ Head(l) = "?"
IsRuleLine(l) == l # <<>> /\ Head(l) # "=" /\ Head(l) # "?"
FactsAt == {i \in DOMAIN Sanitized : IsFactsLine(Sanitized[i])}
QueriesAt == {i \in DOMAIN Sanitized : IsQueriesLine(Sanitized[i])}

\* The place of the second line of a kind, 0 if there is none.
Second(S) == IF Cardinality(S) < 2 THEN 0 ELSE Min(S \ {Min(S)})

\* C8: at most one facts line and one queries line are accepted: the first
\* second line of a kind met ends try_from with "Multiple facts found in input
\* file" or "Multiple queries found in input file", whatever the other lines
\* are, and no Input is returned.
C8_DuplicateLineRejected ==
    Loaded =>
        /\ (Second(FactsAt) # 0 /\ (Second(QueriesAt) = 0 \/ Second(FactsAt) < Second(QueriesAt)))
             => input = Err("Multiple facts found in input file", "")
        /\ (Second(QueriesAt) # 0 /\ (Second(FactsAt) = 0 \/ Second(QueriesAt) < Second(FactsAt)))
             => input = Err("Multiple queries found in input file", "")
        /\ (Second(FactsAt) # 0 \/ Second(QueriesAt) # 0) => input.kind = "err"

\* C8 witness: two facts lines with another line between them were rejected.
C8_Witness ==
    /\ Loaded
    /\ input = Err("Multiple facts found in input file", "")
    /\ \E i \in FactsAt, k \in FactsAt, j \in DOMAIN Sanitized :
          i < j /\ j < k /\ ~IsFactsLine(Sanitized[j])

\* Every character of a string is an identifier.
AllIdentifiers(str) == \A i \in DOMAIN str : is_identifier(str[i])
NoDuplicateLine == Second(FactsAt) = 0 /\ Second(QueriesAt) = 0

\* C9: without a duplicate facts or queries line, try_from fails with "No facts
\* in input file" whenever no facts line is present (the queries line missing or
\* not), with "No queries in input file" when a valid facts line is present and
\* no queries line is; an empty facts or queries line counts as present and
\* yields the empty string.
C9_MissingLineErrors ==
    (Loaded /\ NoDuplicateLine) =>
        /\ (FactsAt = {}) => input = Err("No facts in input file", "")
        /\ (FactsAt # {} /\ QueriesAt = {} /\ AllIdentifiers(Tail(Sanitized[Min(FactsAt)])))
             => input = Err("No queries in input file", "")
        /\ (FactsAt # {} /\ QueriesAt # {}
              /\ AllIdentifiers(Tail(Sanitized[Min(FactsAt)]))
              /\ AllIdentifiers(Tail(Sanitized[Min(QueriesAt)])))
             => /\ input.kind = "ok"
                /\ (Sanitized[Min(FactsAt)] = <<"=">>) => input.facts = <<>>
                /\ (Sanitized[Min(QueriesAt)] = <<"?">>) => input.queries = <<>>

\* C9 witness: an input with rule lines only was rejected for its missing facts.
C9_Witness ==
    /\ Loaded
    /\ lines # <<>>
    /\ FactsAt = {} /\ QueriesAt = {}
    /\ input = Err("No facts in input file", "")

\* C10: when try_from succeeds, rules is exactly the subsequence of the
\* non-empty lines that start with neither '=' nor '?', in their order; facts
\* and queries come from the facts line and the queries line alone, wherever
\* these stand among the rule lines.
C10_RulesAreRuleLines ==
    (Loaded /\ input.kind = "ok") =>
        /\ input.rules = SelectSeq(Sanitized, IsRuleLine)
        /\ \A i \in DOMAIN input.rules : IsRuleLine(input.rules[i])
        /\ input.facts = Dedup(Tail(Sanitized[Min(FactsAt)]), {})
        /\ input.queries = Dedup(Tail(Sanitized[Min(QueriesAt)]), {})

\* C10 witness: try_from succeeded on an input whose facts line stands between
\* two different rules.
C10_Witness ==
    /\ Loaded /\ input.kind = "ok"
    /\ \E i, j, k \in DOMAIN Sanitized :
          /\ i < j /\ j < k
          /\ IsRuleLine(Sanitized[i]) /\ IsFactsLine(Sanitized[j]) /\ IsRuleLine(Sanitized[k])
          /\ Sanitized[i] # Sanitized[k]

\* The characters of a string, and the place where one first occurs.
CharsOf(str) == {str[i] : i \in DOMAIN str}
FirstAt(str, c) == Min({i \in DOMAIN str : str[i] = c})

\* out is src with every repeated occurrence of a character removed.
IsDeduplicated(out, src) ==
    /\ \A i, j \in DOMAIN out : i # j => out[i] # out[j]
    /\ CharsOf(out) = CharsOf(src)
    /\ \A i, j \in DOMAIN out : i < j => FirstAt(src, out[i]) < FirstAt(src, out[j])

\* C11: when try_from succeeds, facts and queries each hold no character twice,
\* hold exactly the characters of their input line, and keep them in
\* first-occurrence order.
C11_FactsQueriesDeduplicated ==
    (Loaded /\ input.kind = "ok") =>
        /\ IsDeduplicated(input.facts, Tail(Sanitized[Min(FactsAt)]))
        /\ IsDeduplicated(input.queries, Tail(Sanitized[Min(QueriesAt)]))

\* C11 witness: try_from succeeded on facts in which a character comes back
\* after another one, and on queries with a repeated character.
C11_Witness ==
    /\ Loaded /\ input.kind = "ok"
    /\ Tail(Sanitized[Min(FactsAt)]) = <<"A", "Z", "A">>
    /\ input.facts = <<"A", "Z">>
    /\ Len(input.queries) < Len(Sanitized[Min(QueriesAt)]) - 1

\* The number of assignments of worker k's range, and how many of its rows
\* have been sent (received or still in the channel).
ChunkSize(k) == chunked_iters[k].end - chunked_iters[k].start
SentBy(k) ==
    Cardinality({i \in DOMAIN (received \o channel) :
                   /\ chunked_iters[k].start <= (received \o channel)[i].assignment
                   /\ (received \o channel)[i].assignment < chunked_iters[k].end})

\* C12 as stated: once spawned, a worker never stops before it has sent the row
\* of every assignment of its range, whatever the consumer does.
C12_WorkersRunToExhaustion ==
    \A k \in DOMAIN worker : (worker[k] # "running") => SentBy(k) = ChunkSize(k)

\* C12 amended: a spawned worker stops early in one way only, a send that fails
\* because the consumer has dropped the iterator: while the iterator is held no
\* worker has stopped before sending every row of its range, and a worker that
\* ended normally has sent them all.
C12_StopsEarlyOnlyAfterDrop ==
    \A k \in DOMAIN worker :
        /\ (worker[k] = "done") => SentBy(k) = ChunkSize(k)
        /\ (worker[k] = "panicked") => (~receiver_alive /\ SentBy(k) < ChunkSize(k))
        /\ (worker[k] = "running") =>
              SentBy(k) = chunked_iters[k].cursor - chunked_iters[k].start

\* C12 witness: a worker has stopped after sending some rows of its range, not all.
C12_Witness ==
    \E k \in DOMAIN worker :
        /\ worker[k] = "panicked"
        /\ SentBy(k) >= 1
        /\ SentBy(k) < ChunkSize(k)

\* C13: the number of rows sent and not yet received never exceeds the
\* capacity, buffer size * thread_count, and while the channel is at capacity
\* no worker produces a further row.
C13_ChannelBounded ==
    /\ [](has_channel => Len(channel) <= Capacity)
    /\ [][(has_channel /\ Len(channel) = Capacity) => chunked_iters' = chunked_iters]_vars

\* C13 witness: the channel is at capacity while a worker has a row left to send.
C13_Witness ==
    /\ has_channel
    /\ Len(channel) = Capacity
    /\ \E k \in DOMAIN worker :
          worker[k] = "running" /\ SequentialPermutationIter_has_next(chunked_iters[k])

\* Some worker or the consumer can take a step.
CanStep ==
    \/ channel # <<>>
    \/ Disconnected
    \/ \E k \in DOMAIN worker :
          /\ worker[k] = "running"
          /\ SequentialPermutationIter_has_next(chunked_iters[k]) => Len(channel) < Capacity

C15_SingleThreadInOrder ==
    (iter_state = "running" /\ thread_count = 1) =>
        /\ Len(chunked_iters) = 1
        /\ chunked_iters[1].start = 0
        /\ chunked_iters[1].end = TotalEnd
        /\ \A i \in DOMAIN received : received[i] = Row(i - 1)
        /\ ended => Len(received) = TotalEnd

\* C15 witness: a single worker has delivered the four rows of two variables.
C15_Witness ==
    /\ thread_count = 1
    /\ variables_len = 2
    /\ ended
    /\ Len(received) = 4

\* C16: for thread_count >= 2 each chunk but the last holds floor(2^n /
\* thread_count) assignments and the last holds the remainder as well, fewer
\* than thread_count more; with thread_count > 2^n every chunk but the last is
\* empty and the last is the whole range.
C16_ChunksNearEqual ==
    (iter_state = "running" /\ thread_count >= 2) =>
        /\ \A k \in 1..(thread_count - 1) : ChunkSize(k) = TotalEnd \div thread_count
        /\ ChunkSize(thread_count) = (TotalEnd \div thread_count) + (TotalEnd % thread_count)
        /\ \A k \in 1..(thread_count - 1) :
              ChunkSize(thread_count) - ChunkSize(k) < thread_count
        /\ (thread_count > TotalEnd) =>
              /\ \A k \in 1..(thread_count - 1) : ChunkSize(k) = 0
              /\ chunked_iters[thread_count].start = 0
              /\ chunked_iters[thread_count].end = TotalEnd

\* C16 witness: workers are running with a thread_count that leaves a remainder.
C16_Witness ==
    /\ iter_state = "running"
    /\ thread_count >= 2
    /\ TotalEnd % thread_count # 0

\* C17: once the consumer has dropped the iterator every worker thread
\* eventually ends, none stays blocked on the full channel; a failing send ends
\* its own worker only and happens only after the drop.
C17_DropEndsWorkers ==
    /\ ((iter_state = "running" /\ ~receiver_alive)
           ~> (\A k \in DOMAIN worker : worker[k] # "running"))
    /\ [][\A k \in DOMAIN worker :
            (worker[k] = "running" /\ worker'[k] = "panicked") =>
                /\ ~receiver_alive
                /\ \A j \in DOMAIN worker \ {k} :
                      worker'[j] = worker[j] /\ chunked_iters'[j] = chunked_iters[j]
                /\ iter_state' = iter_state
                /\ received' = received
                /\ ended' = ended]_vars

\* C17 witness: a worker whose send was blocked on the full channel has ended
\* after the drop.
C17_Witness ==
    /\ ~receiver_alive
    /\ Len(channel) = Capacity
    /\ \E k \in DOMAIN worker : worker[k] = "panicked"

====
